---- MODULE Spec2Model ----
(***************************************************************************)
(* Model of src/app.py: the LA County zip code dashboard.  One script run  *)
(* loads the CSV (load_data), resolves coordinates (get_coordinates),      *)
(* reads the sidebar widgets, filters the table and feeds the filtered     *)
(* view to the tabs (metrics, top/bottom 10, city means, correlation, map, *)
(* data table with search / column selection / export).  Every widget      *)
(* change re-runs the script; load_data and get_coordinates are memoised   *)
(* by st.cache_data.                                                       *)
(*                                                                         *)
(* A table (DataFrame) is [cols |-> <<column names>>, rows |-> <<rows>>];  *)
(* a row is a function from its column names, plus "index" (the pandas     *)
(* index label), to cell values.  Numeric cells are integers; NaN is the   *)
(* missing marker; coordinates are scaled by 10^4.                         *)
(***************************************************************************)
EXTENDS Integers, Sequences, FiniteSets, TLC

VARIABLES
  fs,                 \* the CSV found at each candidate path, or NoFile
  load_cache,         \* st.cache_data entry of load_data
  coord_cache,        \* st.cache_data entry of get_coordinates
  df,                 \* the module-level base table of this run
  base0,              \* history: df as first produced by lines 81-82
  pc,                 \* position of the script run
  err,                \* the exception that stopped the run, "" when none
  selected_category, selected_city, score_range,   \* sidebar widgets
  filtered_df,
  metrics,            \* the five st.metric values of lines 120-131
  top_10, bottom_10,
  corr_matrix,
  city_income, city_home,
  map_df, coverage,
  search_term, selected_cols, display_df, summary, csv,
  n_req,              \* the n of nlargest / nsmallest in this run
  k_req,              \* the k of head(k) on the city means in this run
  second_filter,      \* a second filter state, applied to filtered_df
  refiltered          \* the result of that second filter

widgets == <<selected_category, selected_city, score_range>>
loaded == <<fs, load_cache, coord_cache, df, base0>>
tabs == <<metrics, top_10, bottom_10, corr_matrix, city_income, city_home,
          map_df, coverage, search_term, selected_cols, display_df, summary, csv>>
probes == <<n_req, k_req, second_filter, refiltered>>
vars == <<loaded, pc, err, widgets, filtered_df, tabs, probes>>

\* ---------------------------------------------------------------- bounds
\* number of candidate paths probed by load_data
NumPaths == 3

\* ------------------------------------------------------------ cell values
\* pandas' missing marker (float NaN / None) for a numeric cell
NaN == -99999999
\* a CSV cell of a numeric column that holds text pd.to_numeric cannot parse
NonNumeric == -99999998

IsNaN(x) == x = NaN
NotNa(x) == x # NaN

\* pd.to_numeric(column, errors='coerce') on one cell
ToNumeric(x) == IF x = NonNumeric THEN NaN ELSE x

\* Series.fillna(v) on one cell
FillNa(x, v) == IF IsNaN(x) THEN v ELSE x

\* la_center_lat, la_center_lon (scaled by 10^4)
la_center_lat == 340522
la_center_lon == -1182437

\* ----------------------------------------------------------------- tables
\* a table that has not been produced (no columns, no rows)
Unset == [cols |-> <<>>, rows |-> <<>>]
\* a candidate path at which no file exists
NoFile == [cols |-> <<"<no file>">>, rows |-> <<>>]

Len0(t) == Len(t.rows)
ColSet(t) == {t.cols[i] : i \in 1..Len(t.cols)}
HasCol(t, c) == c \in ColSet(t)

\* the rows whose mask entry is True, in their order
RECURSIVE KeepRows(_, _, _)
KeepRows(rows, mask, i) ==
  IF i > Len(rows) THEN <<>>
  ELSE (IF mask[i] THEN <<rows[i]>> ELSE <<>>) \o KeepRows(rows, mask, i + 1)

\* frame[mask]: boolean indexing with a mask that has one entry per row
BoolIndex(t, mask) == [cols |-> t.cols, rows |-> KeepRows(t.rows, mask, 1)]

\* frame[c] = values: assign a column (appended when new), one value per row
AssignCol(t, c, values) ==
  [cols |-> IF HasCol(t, c) THEN t.cols ELSE Append(t.cols, c),
   rows |-> [i \in 1..Len(t.rows) |->
               [k \in DOMAIN t.rows[i] \cup {c} |->
                  IF k = c THEN values[i] ELSE t.rows[i][k]]]]

BaseCols == <<"zip_code", "primary_city", "composite_score", "score_category",
              "median_income", "median_home_value", "estimated_population">>
CoordCols == BaseCols \o <<"latitude", "longitude">>

Row(i, z, city, s, cat, inc, home, pop) ==
  [index |-> i, zip_code |-> z, primary_city |-> city, composite_score |-> s,
   score_category |-> cat, median_income |-> inc, median_home_value |-> home,
   estimated_population |-> pop]

RowLL(i, z, city, s, cat, inc, home, pop, lat, lon) ==
  [index |-> i, zip_code |-> z, primary_city |-> city, composite_score |-> s,
   score_category |-> cat, median_income |-> inc, median_home_value |-> home,
   estimated_population |-> pop, latitude |-> lat, longitude |-> lon]

\* CSV files the session can find (pd.read_csv gives a RangeIndex 0..n-1)
CsvPlain ==
  [cols |-> BaseCols,
   rows |-> << Row(0, 90001, "Bell", 2, "Good", 4, 6, 3),
               Row(1, 90210, "Avalon", 1, "Poor", 2, 6, 5) >>]
CsvCoords ==
  [cols |-> CoordCols,
   rows |-> << RowLL(0, 90001, "Bell", 1, "Good", 4, 6, 3, 339700, -1182500),
               RowLL(1, 90210, "Avalon", 2, "Good", 2, 6, 5, NaN, NaN),
               RowLL(2, 90704, "Avalon", 2, "Poor", 2, 4, 5, NonNumeric, -1183200) >>]
CsvFull ==
  [cols |-> CoordCols,
   rows |-> << RowLL(0, 90210, "Avalon", 1, "Poor", 5, 1, 2, 340900, -1184100),
               RowLL(1, 90001, "Bell", NaN, "Poor", 1, 3, 2, 339700, -1182500),
               RowLL(2, 90704, "Avalon", 3, "Good", 5, 3, 2, 333400, -1183200) >>]
Datasets == {CsvPlain, CsvCoords, CsvFull}

\* ------------------------------------------------------------- load_data
\* os.path.exists(possible_paths[i])
PathExists(files, i) == files[i] # NoFile

\* faulty variant of FirstExisting: the script directory (candidate 2) is tried first
FirstExisting_scriptDirFirst(files, i) ==
  IF PathExists(files, 2) THEN 2
  ELSE IF PathExists(files, 1) THEN 1
  ELSE IF PathExists(files, 3) THEN 3
  ELSE 0

\* the first candidate, in list order, that exists (0 when none does)
RECURSIVE FirstExisting(_, _)
FirstExisting(files, i) ==
  IF i > NumPaths THEN 0
  ELSE IF PathExists(files, i) THEN i
  ELSE FirstExisting(files, i + 1)

\* load_data(): the table at the first existing path, or FileNotFoundError
load_data(files) ==
  LET p == FirstExisting(files, 1)
  IN IF p = 0 THEN [error |-> "FileNotFoundError", value |-> Unset]
     ELSE [error |-> "", value |-> files[p]]

\* ------------------------------------------------------- get_coordinates
\* pgeocode's answer for the zip codes it knows (scaled by 10^4)
GeoLat(z) == IF z = 90001 THEN 339700 ELSE IF z = 90210 THEN 340900 ELSE 333400
GeoLon(z) == IF z = 90001 THEN -1182500 ELSE IF z = 90210 THEN -1184100 ELSE -1183200

unique_zips(t) == {t.rows[i].zip_code : i \in 1..Len(t.rows)}

\* get_coordinates(df); known[z] says whether the geocoder resolves zip z
get_coordinates(t, known) ==
  LET n == Len(t.rows)
  IN IF HasCol(t, "latitude") /\ HasCol(t, "longitude")
     THEN LET lat == [i \in 1..n |-> ToNumeric(t.rows[i].latitude)]
              lon == [i \in 1..n |-> ToNumeric(t.rows[i].longitude)]
          IN AssignCol(AssignCol(t, "latitude", lat), "longitude", lon)
     ELSE LET zip(i) == t.rows[i].zip_code
              zlat == [i \in 1..n |-> IF known[zip(i)] THEN GeoLat(zip(i)) ELSE NaN]
              zlon == [i \in 1..n |-> IF known[zip(i)] THEN GeoLon(zip(i)) ELSE NaN]
              lat == [i \in 1..n |-> FillNa(ToNumeric(zlat[i]), la_center_lat)]
              lon == [i \in 1..n |-> FillNa(ToNumeric(zlon[i]), la_center_lon)]
          IN AssignCol(AssignCol(t, "latitude", lat), "longitude", lon)

\* -------------------------------------------------------- sidebar filters
\* NaN-aware comparisons: any comparison with NaN is False
Ge(a, b) == NotNa(a) /\ NotNa(b) /\ a >= b
Le(a, b) == NotNa(a) /\ NotNa(b) /\ a <= b

Column(t, c) == [i \in 1..Len(t.rows) |-> t.rows[i][c]]
ValueSet(t, c) == {t.rows[i][c] : i \in 1..Len(t.rows)}

\* Series.min() / Series.max(): NaN cells are skipped; NaN when none is left
SeriesMin(t, c) ==
  LET vs == {v \in ValueSet(t, c) : NotNa(v)}
  IN IF vs = {} THEN NaN ELSE CHOOSE m \in vs : \A v \in vs : m <= v
SeriesMax(t, c) ==
  LET vs == {v \in ValueSet(t, c) : NotNa(v)}
  IN IF vs = {} THEN NaN ELSE CHOOSE m \in vs : \A v \in vs : m >= v

\* the options of the two select boxes and the positions of the slider
score_categories(t) == {"All"} \cup ValueSet(t, "score_category")
cities(t) == {"All"} \cup ValueSet(t, "primary_city")
min_score(t) == SeriesMin(t, "composite_score")
max_score(t) == SeriesMax(t, "composite_score")
SliderRanges(t) ==
  IF IsNaN(min_score(t)) THEN {<<NaN, NaN>>}
  ELSE {r \in (min_score(t)..max_score(t)) \X (min_score(t)..max_score(t)) : r[1] <= r[2]}

\* ---------------------------------------------------------- apply filters
CategoryIs(cat, r) == r.score_category = cat
CityIs(city, r) == r.primary_city = city
\* faulty variant of InRange: the upper bound is exclusive
InRange_exclusive(range, r) ==
  Ge(r.composite_score, range[1]) /\ Le(r.composite_score, range[2])
    /\ r.composite_score # range[2]
InRange(range, r) == Ge(r.composite_score, range[1]) /\ Le(r.composite_score, range[2])

\* faulty variant of ApplyFilters: the city step indexes the unfiltered frame
ApplyFilters_cityOnBase(t, cat, city, range) ==
  LET byCat(f) == [i \in 1..Len(f.rows) |-> CategoryIs(cat, f.rows[i])]
      byCity(f) == [i \in 1..Len(f.rows) |-> CityIs(city, f.rows[i])]
      byScore(f) == [i \in 1..Len(f.rows) |-> InRange(range, f.rows[i])]
      f0 == t
      f1 == IF cat # "All" THEN BoolIndex(f0, byCat(f0)) ELSE f0
      f2 == IF city # "All" THEN BoolIndex(f0, byCity(f0)) ELSE f1
  IN BoolIndex(f2, byScore(f2))

\* filtered_df: the three filter steps applied one after the other
ApplyFilters(t, cat, city, range) ==
  LET byCat(f) == [i \in 1..Len(f.rows) |-> CategoryIs(cat, f.rows[i])]
      byCity(f) == [i \in 1..Len(f.rows) |-> CityIs(city, f.rows[i])]
      byScore(f) == [i \in 1..Len(f.rows) |-> InRange(range, f.rows[i])]
      f0 == t
      f1 == IF cat # "All" THEN BoolIndex(f0, byCat(f0)) ELSE f0
      f2 == IF city # "All" THEN BoolIndex(f1, byCity(f1)) ELSE f1
  IN BoolIndex(f2, byScore(f2))

\* ------------------------------------------------------------ key metrics
RECURSIVE SumSeq(_)
SumSeq(s) == IF s = <<>> THEN 0 ELSE Head(s) + SumSeq(Tail(s))

\* Series.mean(): the mean of the non-NaN cells as the exact fraction
\* sum/count; over no cells it is NaN, written count = 0
MeanOf(cells) ==
  LET vals == SelectSeq(cells, NotNa)
  IN [sum |-> SumSeq(vals), count |-> Len(vals)]
Mean(t, c) == MeanOf(Column(t, c))
MeanIsNaN(m) == m.count = 0
MeanEq(a, b) ==
  \/ MeanIsNaN(a) /\ MeanIsNaN(b)
  \/ ~MeanIsNaN(a) /\ ~MeanIsNaN(b) /\ a.sum * b.count = b.sum * a.count
\* faulty variant of MeanGe: the comparison is reversed (ascending order)
MeanGe_reversed(a, b) ==
  ~MeanIsNaN(a) /\ ~MeanIsNaN(b) /\ a.sum * b.count <= b.sum * a.count
MeanGe(a, b) == ~MeanIsNaN(a) /\ ~MeanIsNaN(b) /\ a.sum * b.count >= b.sum * a.count

\* lines 120-131
KeyMetrics(t) ==
  [total |-> Len(t.rows),
   avg_score |-> Mean(t, "composite_score"),
   avg_income |-> Mean(t, "median_income"),
   avg_home |-> Mean(t, "median_home_value"),
   avg_population |-> Mean(t, "estimated_population")]

\* ------------------------------------------------------ top and bottom 10
\* the dashboard's n of nlargest / nsmallest, and of head
TopN == 10

\* faulty variant of Before: a later row also goes before an equal earlier one
Before_orEqual(r, e, c, desc) == IF desc THEN r[c] >= e[c] ELSE r[c] <= e[c]

\* r goes strictly before e in the requested direction
Before(r, e, c, desc) == IF desc THEN r[c] > e[c] ELSE r[c] < e[c]

\* stable insertion: r, which comes later in the frame, goes after its equals
RECURSIVE InsertStable(_, _, _, _)
InsertStable(s, r, c, desc) ==
  IF s = <<>> THEN <<r>>
  ELSE IF Before(r, Head(s), c, desc) THEN <<r>> \o s
  ELSE <<Head(s)>> \o InsertStable(Tail(s), r, c, desc)

RECURSIVE StableSort(_, _, _)
StableSort(rows, c, desc) ==
  IF rows = <<>> THEN <<>>
  ELSE InsertStable(StableSort(SubSeq(rows, 1, Len(rows) - 1), c, desc),
                    rows[Len(rows)], c, desc)

Head_n(s, n) == SubSeq(s, 1, IF n < Len(s) THEN n ELSE Len(s))

\* DataFrame.nlargest(n, c) / nsmallest(n, c), keep='first': the n rows with
\* the largest (smallest) non-NaN c, ordered by c, the first occurrence
\* taking priority among equal values
SelectN(t, n, c, desc) ==
  LET valid(r) == NotNa(r[c])
  IN [cols |-> t.cols,
      rows |-> IF n <= 0 THEN <<>>
               ELSE Head_n(StableSort(SelectSeq(t.rows, valid), c, desc), n)]
nlargest(t, n, c) == SelectN(t, n, c, TRUE)
nsmallest(t, n, c) == SelectN(t, n, c, FALSE)

\* faulty variant of Project: the frame's own column order is kept
Project_frameOrder(t, columns) ==
  LET want == {columns[i] : i \in 1..Len(columns)}
  IN IF ~(want \subseteq ColSet(t))
     THEN [error |-> "KeyError", value |-> Unset]
     ELSE [error |-> "",
           value |-> [cols |-> SelectSeq(t.cols, LAMBDA c : c \in want),
                      rows |-> [i \in 1..Len(t.rows) |->
                                  [k \in want \cup {"index"} |-> t.rows[i][k]]]]]

\* frame[columns]: KeyError when a requested column is not in the frame
Project(t, columns) ==
  LET want == {columns[i] : i \in 1..Len(columns)}
  IN IF ~(want \subseteq ColSet(t))
     THEN [error |-> "KeyError", value |-> Unset]
     ELSE [error |-> "",
           value |-> [cols |-> columns,
                      rows |-> [i \in 1..Len(t.rows) |->
                                  [k \in want \cup {"index"} |-> t.rows[i][k]]]]]

\* reset_index(drop=True) followed by index = index + 1
ResetIndexFrom1(t) ==
  [cols |-> t.cols,
   rows |-> [i \in 1..Len(t.rows) |-> [t.rows[i] EXCEPT !["index"] = i]]]

RankCols == <<"zip_code", "primary_city", "composite_score", "median_income",
              "median_home_value">>

\* lines 180-184 and 189-193, for n = 10
TopRows(t, n) == ResetIndexFrom1(Project(nlargest(t, n, "composite_score"), RankCols).value)
BottomRows(t, n) == ResetIndexFrom1(Project(nsmallest(t, n, "composite_score"), RankCols).value)

\* --------------------------------------------------------- score analysis
\* DataFrame.corr() on the score column: a cell is a number only when at
\* least two rows are present and the column varies, otherwise NaN
CorrDefined(t, c) ==
  \E i, j \in 1..Len(t.rows) :
     NotNa(t.rows[i][c]) /\ NotNa(t.rows[j][c]) /\ t.rows[i][c] # t.rows[j][c]
Corr(t) == [composite_score |-> IF CorrDefined(t, "composite_score") THEN 1 ELSE NaN]

\* ------------------------------------------------------ economic metrics
\* groupby(key)[c].mean(): one entry per key of the frame
GroupMeans(t, key, c) ==
  {[key |-> k,
    mean |-> LET inGroup == [i \in 1..Len(t.rows) |-> t.rows[i][key] = k]
             IN Mean(BoolIndex(t, inGroup), c)] : k \in ValueSet(t, key)}

\* sort_values(ascending=False): the default sort kind (quicksort) is not
\* stable, so the entries come in any order that is non-increasing, with
\* NaN last; the relative order of equal values is not determined
SortValuesDesc(entries) ==
  LET n == Cardinality(entries)
  IN {s \in [1..n -> entries] :
        /\ \A i, j \in 1..n : i # j => s[i] # s[j]
        /\ \A i, j \in 1..n : i < j =>
              \/ MeanIsNaN(s[j].mean)
              \/ MeanGe(s[i].mean, s[j].mean)}

\* lines 304 and 319: the possible values of the top-k series
TopGroups(t, key, c, k) == {Head_n(s, k) : s \in SortValuesDesc(GroupMeans(t, key, c))}

\* --------------------------------------------------------------- the map
HasCoordinate(r) == NotNa(r.latitude) /\ NotNa(r.longitude)

\* line 424
MapFrame(t) == BoolIndex(t, [i \in 1..Len(t.rows) |-> HasCoordinate(t.rows[i])])

\* lines 428-436: the hover text starts with the zip code
HoverText(r) == r.zip_code

\* line 519, as the fraction num/den
Coverage(m, t) ==
  IF Len(t.rows) = 0 THEN [error |-> "ZeroDivisionError", num |-> 0, den |-> 0]
  ELSE [error |-> "", num |-> Len(m.rows) * 100, den |-> Len(t.rows)]

\* faulty variant of InteractiveMap: the map statistics are computed without the
\* len(map_df) > 0 guard
InteractiveMap_unguarded(t) ==
  LET m == MapFrame(t)
      cov == Coverage(m, t)
  IN [error |-> cov.error,
      map_df |-> AssignCol(m, "hover_text", [i \in 1..Len(m.rows) |-> HoverText(m.rows[i])]),
      coverage |-> [num |-> cov.num, den |-> cov.den]]

\* lines 424-524
InteractiveMap(t) ==
  LET m == MapFrame(t)
  IN IF Len(m.rows) > 0
     THEN LET cov == Coverage(m, t)
          IN [error |-> cov.error,
              map_df |-> AssignCol(m, "hover_text", [i \in 1..Len(m.rows) |-> HoverText(m.rows[i])]),
              coverage |-> [num |-> cov.num, den |-> cov.den]]
     ELSE [error |-> "", map_df |-> m, coverage |-> [num |-> 0, den |-> 0]]

\* ------------------------------------------------------------- data table
\* the characters of the texts of the dataset
Chars(s) ==
  CASE s = "Bell" -> <<"B", "e", "l", "l">>
    [] s = "Avalon" -> <<"A", "v", "a", "l", "o", "n">>
    [] s = "Good" -> <<"G", "o", "o", "d">>
    [] s = "Poor" -> <<"P", "o", "o", "r">>

DigitChar(d) == <<"0", "1", "2", "3", "4", "5", "6", "7", "8", "9">>[d + 1]

\* astype(str) of an integer cell: its decimal digits
RECURSIVE AsTypeStr(_)
AsTypeStr(n) ==
  IF n < 10 THEN <<DigitChar(n)>> ELSE AsTypeStr(n \div 10) \o <<DigitChar(n % 10)>>

\* case folding of re.IGNORECASE
Lower(ch) ==
  CASE ch = "A" -> "a" [] ch = "B" -> "b" [] ch = "G" -> "g" [] ch = "P" -> "p"
    [] OTHER -> ch

\* one pattern character against one text character: str.contains takes the
\* term as a regular expression (regex=True), in which "." is any character
RegexCharMatch(p, ch) == p = "." \/ Lower(p) = Lower(ch)

\* Series.str.contains(term, case=False, na=False) on one cell
StrContains(text, term) ==
  \E start \in 1..(Len(text) - Len(term) + 1) :
     \A k \in 1..Len(term) : RegexCharMatch(term[k], text[start + k - 1])

\* lines 533-537
SearchMask(term, r) ==
  \/ StrContains(AsTypeStr(r.zip_code), term)
  \/ StrContains(Chars(r.primary_city), term)
  \/ StrContains(Chars(r.score_category), term)

\* lines 532-540
Search(t, term) ==
  LET mask == [i \in 1..Len(t.rows) |-> SearchMask(term, t.rows[i])]
  IN IF term # <<>> THEN BoolIndex(t, mask) ELSE t

default_cols == <<"zip_code", "primary_city", "composite_score", "score_category",
                  "median_income", "median_home_value", "estimated_population">>

\* lines 552-553
SelectColumns(t, columns) ==
  IF columns # <<>> THEN Project(t, columns)
  ELSE [error |-> "", value |-> t]

\* select_dtypes(include=['float64', 'int64']).columns
TextCols == {"primary_city", "score_category"}
numeric_cols(t) == SelectSeq(t.cols, LAMBDA c : c \notin TextCols)

\* lines 573-575: describe() is only called on at least one numeric column;
\* of its statistics the model keeps count, the number of non-NaN cells
Describe(t) ==
  IF Len(t.cols) = 0 THEN [error |-> "ValueError", value |-> <<>>]
  ELSE [error |-> "",
        value |-> [i \in 1..Len(t.cols) |->
                     [column |-> t.cols[i],
                      count |-> Len(SelectSeq(Column(t, t.cols[i]), NotNa))]]]
SummaryStatistics(t) ==
  IF Len(numeric_cols(t)) > 0 THEN Describe(Project(t, numeric_cols(t)).value)
  ELSE [error |-> "", value |-> <<>>]

\* ------------------------------------------------------------- CSV export
\* the texts a cell of a text column can hold
TextValues == {"Bell", "Avalon", "Good", "Poor"}

\* dtype float64 columns; the other numeric columns are int64 (no NaN in them)
FloatCols == {"composite_score", "latitude", "longitude"}
\* decimal places the model keeps of a column: a coordinate is held in units
\* of 10^-4 degree, every other number in units
FracWidth(c) == IF c \in {"latitude", "longitude"} THEN 4 ELSE 0

RECURSIVE Pow10(_)
Pow10(k) == IF k = 0 THEN 1 ELSE 10 * Pow10(k - 1)

\* the w decimal digits of f, zero padded on the left
RECURSIVE Pad(_, _)
Pad(f, w) == IF w = 0 THEN <<>> ELSE Pad(f \div 10, w - 1) \o <<DigitChar(f % 10)>>

\* repr of a float keeps no trailing zero after the first decimal
RECURSIVE StripZeros(_)
StripZeros(s) ==
  IF Len(s) > 1 /\ s[Len(s)] = "0" THEN StripZeros(SubSeq(s, 1, Len(s) - 1)) ELSE s

Sign(x) == IF x < 0 THEN <<"-">> ELSE <<>>
Abs(x) == IF x < 0 THEN -x ELSE x

\* to_csv writes an int64 cell as its decimal digits
FormatInt(x) == Sign(x) \o AsTypeStr(Abs(x))

\* to_csv writes a float64 cell as its repr: 1.0, 33.97, -118.2437
FormatFloat(x, w) ==
  LET ip == Abs(x) \div Pow10(w)
      f == Abs(x) % Pow10(w)
  IN Sign(x) \o AsTypeStr(ip) \o <<".">>
       \o (IF w = 0 THEN <<"0">> ELSE StripZeros(Pad(f, w)))

\* one cell of column c as written by to_csv (na_rep = '')
FormatCell(c, x) ==
  IF c \in TextCols THEN Chars(x)
  ELSE IF IsNaN(x) THEN <<>>
  ELSE IF c \in FloatCols THEN FormatFloat(x, FracWidth(c))
  ELSE FormatInt(x)

\* fields joined by the delimiter
RECURSIVE JoinFields(_)
JoinFields(fields) ==
  IF Len(fields) = 0 THEN <<>>
  ELSE IF Len(fields) = 1 THEN fields[1]
  ELSE fields[1] \o <<",">> \o JoinFields(Tail(fields))

\* faulty variant of WriteRow: a lone empty field is written as a blank line
WriteRow_bare(fields) == JoinFields(fields)

\* csv.writer.writerow: a record of one empty field is written quoted, so
\* that the line is not blank; no text of the dataset needs quoting otherwise
WriteRow(fields) ==
  IF Len(fields) = 1 /\ fields[1] = <<>> THEN <<"\"", "\"">>
  ELSE JoinFields(fields)

\* line 563: display_df.to_csv(index=False); the text is kept as its header
\* fields and its data lines, each line a sequence of characters
NoCsv == [header |-> <<>>, lines |-> <<>>]
to_csv(t) ==
  [header |-> t.cols,
   lines |-> [i \in 1..Len(t.rows) |->
                WriteRow([j \in 1..Len(t.cols) |->
                            FormatCell(t.cols[j], t.rows[i][t.cols[j]])])]]

\* the fields of one line, split at the delimiter
RECURSIVE SplitFrom(_, _, _)
SplitFrom(line, i, field) ==
  IF i > Len(line) THEN <<field>>
  ELSE IF line[i] = "," THEN <<field>> \o SplitFrom(line, i + 1, <<>>)
  ELSE SplitFrom(line, i + 1, Append(field, line[i]))
SplitFields(line) ==
  IF line = <<"\"", "\"">> THEN << <<>> >> ELSE SplitFrom(line, 1, <<>>)

DigitChars == {DigitChar(d) : d \in 0..9}
DigitVal(ch) == CHOOSE d \in 0..9 : DigitChar(d) = ch

\* does the parser take the field for a number
IsNumberText(f) ==
  LET body == IF Len(f) > 0 /\ f[1] = "-" THEN Tail(f) ELSE f
      dots == {i \in 1..Len(body) : body[i] = "."}
  IN /\ Len(body) > 0
     /\ Cardinality(dots) <= 1
     /\ \A i \in 1..Len(body) : body[i] \in DigitChars \cup {"."}
     /\ \E i \in 1..Len(body) : body[i] \in DigitChars

RECURSIVE DigitsValue(_)
DigitsValue(s) ==
  IF Len(s) = 0 THEN 0
  ELSE 10 * DigitsValue(SubSeq(s, 1, Len(s) - 1)) + DigitVal(s[Len(s)])

\* the number a field denotes, in units of 10^-w
ParseNumber(f, w) ==
  LET neg == f[1] = "-"
      body == IF neg THEN Tail(f) ELSE f
      dot == IF \E i \in 1..Len(body) : body[i] = "."
             THEN CHOOSE i \in 1..Len(body) : body[i] = "." ELSE Len(body) + 1
      whole == SubSeq(body, 1, dot - 1)
      frac == SubSeq(body, dot + 1, Len(body))
      k == Len(frac)
      part == IF k <= w THEN DigitsValue(frac) * Pow10(w - k)
              ELSE DigitsValue(frac) \div Pow10(k - w)
      v == DigitsValue(whole) * Pow10(w) + part
  IN IF neg THEN -v ELSE v

ParseText(f) == CHOOSE s \in TextValues : Chars(s) = f

\* line 29: pd.read_csv of a text: blank lines are skipped, a column
\* whose non-empty fields are all numbers is numeric, an empty field is NaN,
\* and the rows get a RangeIndex
read_csv(text) ==
  LET lines == SelectSeq(text.lines, LAMBDA l : l # <<>>)
      fields == [i \in 1..Len(lines) |-> SplitFields(lines[i])]
      numeric == [j \in 1..Len(text.header) |->
                    \A i \in 1..Len(lines) :
                       fields[i][j] = <<>> \/ IsNumberText(fields[i][j])]
      pos(c) == CHOOSE j \in 1..Len(text.header) : text.header[j] = c
      cell(i, c) ==
        LET f == fields[i][pos(c)]
        IN IF f = <<>> THEN NaN
           ELSE IF numeric[pos(c)] THEN ParseNumber(f, FracWidth(c))
           ELSE ParseText(f)
  IN [cols |-> text.header,
      rows |-> [i \in 1..Len(lines) |->
                  [c \in ColSet([cols |-> text.header]) \cup {"index"} |->
                     IF c = "index" THEN i - 1 ELSE cell(i, c)]]]

\* ------------------------------------------------------------ the session
\* what the user types into the search box and picks in the multiselect
SessionTerms == {<<>>, <<"b">>, <<".">>}
SessionSelections == {default_cols, <<>>, <<"score_category", "zip_code">>}

NoMetrics == [total |-> 0, avg_score |-> MeanOf(<<>>), avg_income |-> MeanOf(<<>>),
              avg_home |-> MeanOf(<<>>), avg_population |-> MeanOf(<<>>)]
NoCoverage == [num |-> 0, den |-> 0]

RunStart ==
  /\ df = Unset
  /\ pc = "load"
  /\ err = ""
  /\ selected_category = "All"
  /\ selected_city = "All"
  /\ score_range = <<NaN, NaN>>
  /\ filtered_df = Unset
  /\ metrics = NoMetrics
  /\ top_10 = Unset
  /\ bottom_10 = Unset
  /\ corr_matrix = [composite_score |-> NaN]
  /\ city_income = <<>>
  /\ city_home = <<>>
  /\ map_df = Unset
  /\ coverage = NoCoverage
  /\ search_term = <<>>
  /\ selected_cols = default_cols
  /\ display_df = Unset
  /\ summary = <<>>
  /\ csv = NoCsv
  /\ n_req = TopN
  /\ k_req = TopN
  /\ second_filter = <<"All", "All", <<NaN, NaN>>>>
  /\ refiltered = Unset

Init ==
  /\ fs \in [1..NumPaths -> Datasets \cup {NoFile}]
  \* candidates 1 and 3 name the same file: the bare file name resolves
  \* against os.getcwd()
  /\ fs[1] = fs[3]
  /\ load_cache = Unset
  /\ coord_cache = Unset
  /\ base0 = Unset
  /\ RunStart

\* an exception ends the script run
Raise(e) == pc' = "failed" /\ err' = e

\* line 81: df = load_data(), memoised by st.cache_data
LoadData ==
  /\ pc = "load"
  /\ IF load_cache # Unset
     THEN /\ df' = load_cache
          /\ pc' = "coords"
          /\ UNCHANGED <<load_cache, err>>
     ELSE LET res == load_data(fs)
          IN IF res.error # ""
             THEN /\ Raise(res.error)
                  /\ UNCHANGED <<df, load_cache>>
             ELSE /\ df' = res.value
                  /\ load_cache' = res.value
                  /\ pc' = "coords"
                  /\ UNCHANGED err
  /\ UNCHANGED <<fs, coord_cache, base0, widgets, filtered_df, tabs, probes>>

\* line 82: df = get_coordinates(df), memoised by st.cache_data; the
\* geocoder's answers are drawn when it is asked
GetCoordinates ==
  /\ pc = "coords"
  /\ IF coord_cache # Unset
     THEN /\ df' = coord_cache
          /\ UNCHANGED <<coord_cache, base0>>
     ELSE \E known \in [unique_zips(df) -> BOOLEAN] :
            /\ df' = get_coordinates(df, known)
            /\ coord_cache' = df'
            /\ base0' = df'
  /\ pc' = "sidebar"
  /\ UNCHANGED <<fs, load_cache, err, widgets, filtered_df, tabs, probes>>

\* lines 87-103: the user sets the select boxes and the slider
Sidebar ==
  /\ pc = "sidebar"
  /\ \E cat \in score_categories(df), city \in cities(df), range \in SliderRanges(df) :
       /\ selected_category' = cat
       /\ selected_city' = city
       /\ score_range' = range
  /\ pc' = "filter"
  /\ UNCHANGED <<loaded, err, filtered_df, tabs, probes>>

\* faulty variant of Filter: the filtered frame is bound to the module-level name df
Filter_rebind ==
  /\ pc = "filter"
  /\ filtered_df' = ApplyFilters(df, selected_category, selected_city, score_range)
  /\ df' = filtered_df'
  /\ pc' = "metrics"
  /\ UNCHANGED <<fs, load_cache, coord_cache, base0, err, widgets, tabs, probes>>

\* lines 105-114
Filter ==
  /\ pc = "filter"
  /\ filtered_df' = ApplyFilters(df, selected_category, selected_city, score_range)
  /\ pc' = "metrics"
  /\ UNCHANGED <<loaded, err, widgets, tabs, probes>>

\* lines 120-131
Metrics ==
  /\ pc = "metrics"
  /\ metrics' = KeyMetrics(filtered_df)
  /\ pc' = "overview"
  /\ UNCHANGED <<loaded, err, widgets, filtered_df, top_10, bottom_10, corr_matrix,
                 city_income, city_home, map_df, coverage, search_term,
                 selected_cols, display_df, summary, csv, probes>>

\* lines 178-194, with the n of nlargest / nsmallest drawn from ns
OverviewWith(ns) ==
  /\ pc = "overview"
  /\ \E n \in ns :
       /\ n_req' = n
       /\ top_10' = TopRows(filtered_df, n)
       /\ bottom_10' = BottomRows(filtered_df, n)
  /\ pc' = "scores"
  /\ UNCHANGED <<loaded, err, widgets, filtered_df, metrics, corr_matrix,
                 city_income, city_home, map_df, coverage, search_term,
                 selected_cols, display_df, summary, csv, k_req, second_filter,
                 refiltered>>

\* lines 178-194
Overview == OverviewWith({TopN})

\* lines 219-221
ScoreAnalysis ==
  /\ pc = "scores"
  /\ corr_matrix' = Corr(filtered_df)
  /\ pc' = "economic"
  /\ UNCHANGED <<loaded, err, widgets, filtered_df, metrics, top_10, bottom_10,
                 city_income, city_home, map_df, coverage, search_term,
                 selected_cols, display_df, summary, csv, probes>>

\* lines 304 and 319, with the k of head(k) drawn from ks
EconomicWith(ks) ==
  /\ pc = "economic"
  /\ \E k \in ks :
       /\ k_req' = k
       /\ city_income' \in TopGroups(filtered_df, "primary_city", "median_income", k)
       /\ city_home' \in TopGroups(filtered_df, "primary_city", "median_home_value", k)
  /\ pc' = "map"
  /\ UNCHANGED <<loaded, err, widgets, filtered_df, metrics, top_10, bottom_10,
                 corr_matrix, map_df, coverage, search_term, selected_cols,
                 display_df, summary, csv, n_req, second_filter, refiltered>>

\* lines 304 and 319
Economic == EconomicWith({TopN})

\* lines 423-524
Map ==
  /\ pc = "map"
  /\ LET res == InteractiveMap(filtered_df)
     IN /\ map_df' = res.map_df
        /\ coverage' = res.coverage
        /\ IF res.error # "" THEN Raise(res.error)
           ELSE pc' = "table" /\ UNCHANGED err
  /\ UNCHANGED <<loaded, widgets, filtered_df, metrics, top_10, bottom_10,
                 corr_matrix, city_income, city_home, search_term, selected_cols,
                 display_df, summary, csv, probes>>

\* lines 529-575: search box, column multiselect, table, download, summary
\* statistics,
\* with the user's term and selection drawn from terms and selections
DataTableWith(terms, selections) ==
  /\ pc = "table"
  /\ \E term \in terms, columns \in selections :
       LET found == Search(filtered_df, term)
           shown == SelectColumns(found, columns)
           stats == SummaryStatistics(shown.value)
       IN /\ search_term' = term
          /\ selected_cols' = columns
          /\ IF shown.error # ""
             THEN /\ Raise(shown.error)
                  /\ UNCHANGED <<display_df, summary, csv>>
             ELSE /\ display_df' = shown.value
                  /\ csv' = to_csv(shown.value)
                  /\ summary' = stats.value
                  /\ IF stats.error # "" THEN Raise(stats.error)
                     ELSE pc' = "done" /\ UNCHANGED err
  /\ UNCHANGED <<loaded, widgets, filtered_df, metrics, top_10, bottom_10,
                 corr_matrix, city_income, city_home, map_df, coverage, probes>>

\* lines 529-575
DataTable == DataTableWith(SessionTerms, SessionSelections)

\* a widget change re-runs the script from the top; only the caches survive
Rerun ==
  /\ pc = "done"
  /\ df' = Unset
  /\ pc' = "load"
  /\ selected_category' = "All"
  /\ selected_city' = "All"
  /\ score_range' = <<NaN, NaN>>
  /\ filtered_df' = Unset
  /\ metrics' = NoMetrics
  /\ top_10' = Unset
  /\ bottom_10' = Unset
  /\ corr_matrix' = [composite_score |-> NaN]
  /\ city_income' = <<>>
  /\ city_home' = <<>>
  /\ map_df' = Unset
  /\ coverage' = NoCoverage
  /\ search_term' = <<>>
  /\ selected_cols' = default_cols
  /\ display_df' = Unset
  /\ summary' = <<>>
  /\ csv' = NoCsv
  /\ UNCHANGED <<fs, load_cache, coord_cache, base0, err, probes>>

Next ==
  \/ LoadData
  \/ GetCoordinates
  \/ Sidebar
  \/ Filter
  \/ Metrics
  \/ Overview
  \/ ScoreAnalysis
  \/ Economic
  \/ Map
  \/ DataTable
  \/ Rerun

Spec == Init /\ [][Next]_vars

\* ------------------------------------------- the operations on any table
\* Bounds of the tables and requests the operations are applied to
MaxFilterRows == 3
MaxComposeRows == 2
MaxRankRows == 4
MaxGroupRows == 3
MaxSearchRows == 2
MaxN == 3
MaxK == 2
MaxTermLen == 2
MaxSelected == 2

Cities == {"Avalon", "Bell"}
Categories == {"Good", "Poor"}

\* zip_code is the unique key of a record
ZipAt(i) == <<90001, 90210, 90704, 91001, 91210>>[i]

\* the loaded tables of up to maxRows rows whose city, score, category and
\* income cells range over the given sets (index 0..n-1, as read_csv gives)
Tables(maxRows, cs, ss, ks, incs) ==
  {[cols |-> CoordCols,
    rows |-> [i \in 1..Len(ch) |->
                RowLL(i - 1, ZipAt(i), ch[i][1], ch[i][2], ch[i][3], ch[i][4],
                      2, 1, GeoLat(ZipAt(i)), GeoLon(ZipAt(i)))]] :
     ch \in UNION {[1..n -> cs \X ss \X ks \X incs] : n \in 1..maxRows}}

FilterTables == Tables(MaxFilterRows, Cities, {1, 2, NaN}, Categories, {1})
ComposeTables == Tables(MaxComposeRows, Cities, {1, 2, NaN}, Categories, {1})
RankTables == Tables(MaxRankRows, {"Bell"}, {1, 2, 3}, {"Good"}, {1})
GroupTables == Tables(MaxGroupRows, Cities, {1}, {"Good"}, {1, 2, 3})
SearchTables == Tables(MaxSearchRows, Cities, {1}, Categories, {1})

\* the filter states a second filter can be in
FilterStates == (Categories \cup {"All"}) \X (Cities \cup {"All"})
                  \X {r \in {1, 2} \X {1, 2} : r[1] <= r[2]}

\* the search terms: the texts of up to MaxTermLen characters
Alphabet == {"b", "A", "o", "9", "."}
Terms == UNION {[1..n -> Alphabet] : n \in 0..MaxTermLen}

\* the multiselect's values: up to MaxSelected different columns, in the
\* order the user picked them
Selections ==
  {s \in UNION {[1..n -> ColSet([cols |-> CoordCols])] : n \in 0..MaxSelected} :
     \A i, j \in 1..Len(s) : i # j => s[i] # s[j]}

\* the script has loaded table t and reached the sidebar
Ready(t) ==
  /\ fs = [i \in 1..NumPaths |-> t]
  /\ load_cache = t
  /\ coord_cache = t
  /\ base0 = t
  /\ df = t
  /\ pc = "sidebar"
  /\ err = ""
  /\ selected_category = "All"
  /\ selected_city = "All"
  /\ score_range = <<NaN, NaN>>
  /\ filtered_df = Unset
  /\ metrics = NoMetrics
  /\ top_10 = Unset
  /\ bottom_10 = Unset
  /\ corr_matrix = [composite_score |-> NaN]
  /\ city_income = <<>>
  /\ city_home = <<>>
  /\ map_df = Unset
  /\ coverage = NoCoverage
  /\ search_term = <<>>
  /\ selected_cols = default_cols
  /\ display_df = Unset
  /\ summary = <<>>
  /\ csv = NoCsv
  /\ n_req = TopN
  /\ k_req = TopN
  /\ second_filter = <<"All", "All", <<NaN, NaN>>>>
  /\ refiltered = Unset

\* the filter of lines 105-114 applied a second time, to its own result
FilterAgain ==
  /\ pc = "metrics"
  /\ \E q \in FilterStates :
       /\ second_filter' = q
       /\ refiltered' = ApplyFilters(filtered_df, q[1], q[2], q[3])
  /\ pc' = "done"
  /\ UNCHANGED <<loaded, err, widgets, filtered_df, tabs, n_req, k_req>>

InitFilter == \E t \in FilterTables : Ready(t)
NextFilter == Sidebar \/ Filter
SpecFilter == InitFilter /\ [][NextFilter]_vars

InitCompose == \E t \in ComposeTables : Ready(t)
NextCompose == Sidebar \/ Filter \/ FilterAgain
SpecCompose == InitCompose /\ [][NextCompose]_vars

RankOverview == OverviewWith(0..MaxN)
InitRank == \E t \in RankTables : Ready(t)
NextRank == Sidebar \/ Filter \/ Metrics \/ RankOverview
SpecRank == InitRank /\ [][NextRank]_vars

GroupEconomic == EconomicWith(0..MaxK)
InitGroups == \E t \in GroupTables : Ready(t)
NextGroups == Sidebar \/ Filter \/ Metrics \/ Overview \/ ScoreAnalysis \/ GroupEconomic
SpecGroups == InitGroups /\ [][NextGroups]_vars

SearchTable == DataTableWith(Terms, {<<>>})
InitSearch == \E t \in SearchTables : Ready(t)
NextSearch ==
  Sidebar \/ Filter \/ Metrics \/ Overview \/ ScoreAnalysis \/ Economic \/ Map \/ SearchTable
SpecSearch == InitSearch /\ [][NextSearch]_vars

SelectTable == DataTableWith({<<>>}, Selections)
NextSelect ==
  Sidebar \/ Filter \/ Metrics \/ Overview \/ ScoreAnalysis \/ Economic \/ Map \/ SelectTable
SpecSelect == InitSearch /\ [][NextSelect]_vars

\* the session with further column selections for the download: one float
\* column alone, and two columns in an order that is not the frame's
ExportSelections ==
  SessionSelections \cup {<<"latitude">>, <<"longitude", "zip_code">>}
ExportTable == DataTableWith(SessionTerms, ExportSelections)
NextExport ==
  \/ LoadData
  \/ GetCoordinates
  \/ Sidebar
  \/ Filter
  \/ Metrics
  \/ Overview
  \/ ScoreAnalysis
  \/ Economic
  \/ Map
  \/ ExportTable
  \/ Rerun
SpecExport == Init /\ [][NextExport]_vars

\* ====================================================== claims: the session
\* the filter has produced a view in this run
Filtered == filtered_df # Unset
\* the map tab has run in this run
Mapped == pc \in {"table", "done"}

\* C3: load_data returns the table of the first candidate, in list order,
\* that exists; it raises FileNotFoundError exactly when no candidate
\* exists, and then no table is produced and no later step runs
C3_LoadFirstExisting ==
  /\ load_cache # Unset =>
       \E p \in 1..NumPaths :
          /\ fs[p] # NoFile
          /\ \A q \in 1..(p - 1) : fs[q] = NoFile
          /\ load_cache = fs[p]
  /\ err = "FileNotFoundError" =>
       /\ \A p \in 1..NumPaths : fs[p] = NoFile
       /\ pc = "failed"
       /\ load_cache = Unset /\ coord_cache = Unset /\ df = Unset
       /\ filtered_df = Unset /\ map_df = Unset /\ display_df = Unset
       /\ metrics = NoMetrics
  /\ (\A p \in 1..NumPaths : fs[p] = NoFile) /\ pc # "load" =>
       err = "FileNotFoundError"

\* C3 witness: the first candidate is absent, the table of the second one
\* was loaded and the run went through
C3_Witness ==
  /\ fs[1] = NoFile /\ fs[2] # NoFile
  /\ load_cache = fs[2]
  /\ pc = "done"

\* C2: after get_coordinates every record has a latitude and a longitude
\* (the fallback when unresolved), so the map keeps every filtered record
C2_EveryRecordMappable ==
  /\ coord_cache # Unset =>
       \A i \in 1..Len(coord_cache.rows) :
          /\ NotNa(coord_cache.rows[i].latitude)
          /\ NotNa(coord_cache.rows[i].longitude)
  /\ Mapped => Len(map_df.rows) = Len(filtered_df.rows)

\* C4: once loaded and geocoded, the base table is the same in every later
\* step and run: no filter, search, projection, ranking, grouping or map
\* step changes its rows, columns or values
C4_BaseNeverMutated ==
  base0 # Unset =>
    /\ coord_cache = base0
    /\ pc \notin {"load", "coords"} => df = base0
    /\ \E p \in 1..NumPaths : load_cache = fs[p]

\* C4 witness: a finished run whose views differ from the base table
C4_Witness ==
  /\ pc = "done"
  /\ Len(filtered_df.rows) < Len(df.rows)
  /\ HasCol(map_df, "hover_text") /\ ~HasCol(df, "hover_text")
  /\ display_df.cols # df.cols

\* C5: a filter state that selects no record never stops the run: the count
\* is 0, the four means are NaN (neither 0 nor an exception), and every
\* later tab produces its (empty) result
C5_EmptySelectionCompletes ==
  (Filtered /\ Len(filtered_df.rows) = 0) =>
    /\ pc # "failed" /\ err = ""
    /\ pc \in {"overview", "scores", "economic", "map", "table", "done"} =>
         /\ metrics.total = 0
         /\ MeanIsNaN(metrics.avg_score) /\ MeanIsNaN(metrics.avg_income)
         /\ MeanIsNaN(metrics.avg_home) /\ MeanIsNaN(metrics.avg_population)
    /\ pc = "done" =>
         /\ top_10.rows = <<>> /\ bottom_10.rows = <<>>
         /\ city_income = <<>> /\ city_home = <<>>
         /\ IsNaN(corr_matrix.composite_score)
         /\ map_df.rows = <<>>
         /\ display_df.rows = <<>>
         /\ \A i \in 1..Len(summary) : summary[i].count = 0

\* C5 witness: a run over an empty selection has reached its end
C5_Witness ==
  /\ pc = "done"
  /\ Filtered /\ Len(filtered_df.rows) = 0
  /\ Len(df.rows) > 0

\* ================================================ claims: the operations
\* record r satisfies the filter state (cat, city, [lo, hi]): each "All"
\* is no constraint and the range is inclusive at both ends
Satisfies(r, cat, city, range) ==
  /\ cat = "All" \/ r.score_category = cat
  /\ city = "All" \/ r.primary_city = city
  /\ NotNa(r.composite_score) /\ NotNa(range[1]) /\ NotNa(range[2])
  /\ range[1] <= r.composite_score
  /\ r.composite_score <= range[2]

\* the rows of view are exactly the rows of base for which keep holds, in
\* the order of base (base carries the index 0, 1, 2, ...)
IsSubview(view, base, keep) ==
  /\ \A i \in 1..Len(view) : \E j \in 1..Len(base) : base[j] = view[i] /\ keep[j]
  /\ \A j \in 1..Len(base) : keep[j] => \E i \in 1..Len(view) : view[i] = base[j]
  /\ \A i, k \in 1..Len(view) : i < k => view[i].index < view[k].index

\* C1: the filtered view holds exactly the records that match the selected
\* category (unless "All") and the selected city (unless "All") and whose
\* composite_score lies in [lo, hi], both bounds included, in the order of
\* the base table
C1_FilterExact ==
  Filtered =>
    /\ filtered_df.cols = df.cols
    /\ IsSubview(filtered_df.rows, df.rows,
                 [j \in 1..Len(df.rows) |->
                    Satisfies(df.rows[j], selected_category, selected_city,
                              score_range)])

\* C1 witness: a category, a city and a range that is met at a bound keep
\* two records in order and drop a third
C1_Witness ==
  /\ Filtered
  /\ selected_category # "All" /\ selected_city # "All"
  /\ Len(df.rows) = 3 /\ Len(filtered_df.rows) = 2
  /\ filtered_df.rows[1].composite_score = score_range[2]
  /\ filtered_df.rows[2].composite_score = score_range[1]
  /\ score_range[1] < score_range[2]

\* C10: filtering with P and then with Q gives the rows, in order, of one
\* filter with P and Q together; filtering the result with P again changes
\* nothing
C10_FilterComposes ==
  pc = "done" =>
    /\ IsSubview(refiltered.rows, df.rows,
                 [j \in 1..Len(df.rows) |->
                    /\ Satisfies(df.rows[j], selected_category, selected_city,
                                 score_range)
                    /\ Satisfies(df.rows[j], second_filter[1], second_filter[2],
                                 second_filter[3])])
    /\ second_filter = <<selected_category, selected_city, score_range>> =>
         refiltered = filtered_df

\* C10 witness: the second filter state differs from the first and removes
\* a record the first one kept
C10_Witness ==
  /\ pc = "done"
  /\ second_filter # <<selected_category, selected_city, score_range>>
  /\ selected_category # "All" /\ second_filter[2] # "All"
  /\ Len(filtered_df.rows) = 2 /\ Len(refiltered.rows) = 1

\* the position in the view of the record a ranked row was taken from
\* (zip_code is the key of a record)
PosInView(row) ==
  CHOOSE j \in 1..Len(filtered_df.rows) : filtered_df.rows[j].zip_code = row.zip_code

\* ranked is a selection of n records of the view by composite_score, the
\* best first: Better(a, b) says score a goes strictly before score b
RankedSelection(ranked, n, desc) ==
  LET v == filtered_df.rows
      Better(a, b) == IF desc THEN a > b ELSE a < b
      chosen == {PosInView(ranked[i]) : i \in 1..Len(ranked)}
  IN /\ Len(ranked) = (IF n < Len(v) THEN n ELSE Len(v))
     /\ \A i \in 1..Len(ranked) :
          /\ \E j \in 1..Len(v) : v[j].zip_code = ranked[i].zip_code
          /\ ranked[i].composite_score = v[PosInView(ranked[i])].composite_score
     /\ Cardinality(chosen) = Len(ranked)
     /\ \A i, k \in 1..Len(ranked) : i < k =>
          /\ ~Better(ranked[k].composite_score, ranked[i].composite_score)
          /\ ranked[i].composite_score = ranked[k].composite_score =>
               PosInView(ranked[i]) < PosInView(ranked[k])
     /\ \A j \in (1..Len(v)) \ chosen : \A i \in 1..Len(ranked) :
          /\ ~Better(v[j].composite_score, ranked[i].composite_score)
          /\ v[j].composite_score = ranked[i].composite_score =>
               PosInView(ranked[i]) < j

\* C6: the top-n selection has min(n, |view|) rows, non-increasing in
\* composite_score, they are the n largest records, and equal scores keep
\* their row order, the earlier row being kept at the cut-off; the bottom-n
\* selection is the same with non-decreasing scores; n = 0 gives no row
C6_TopNStable ==
  pc = "scores" =>
    /\ RankedSelection(top_10.rows, n_req, TRUE)
    /\ RankedSelection(bottom_10.rows, n_req, FALSE)
    /\ n_req = 0 => top_10.rows = <<>> /\ bottom_10.rows = <<>>

\* C6 witness: two of four records are asked for and the score at the
\* cut-off is shared by a selected and an unselected record
C6_Witness ==
  /\ pc = "scores"
  /\ n_req = 2 /\ Len(filtered_df.rows) = 4 /\ Len(top_10.rows) = 2
  /\ top_10.rows[1].composite_score > top_10.rows[2].composite_score
  /\ \E j \in 1..4 :
       /\ filtered_df.rows[j].composite_score = top_10.rows[2].composite_score
       /\ filtered_df.rows[j].zip_code # top_10.rows[2].zip_code

\* the sum and the number of the value cells of the view's records of a city
RECURSIVE CitySum(_, _, _, _)
CitySum(rows, city, c, i) ==
  IF i > Len(rows) THEN 0
  ELSE (IF rows[i].primary_city = city THEN rows[i][c] ELSE 0)
         + CitySum(rows, city, c, i + 1)
CityCount(rows, city) ==
  Cardinality({i \in 1..Len(rows) : rows[i].primary_city = city})

\* the first row of the view in which the city appears
FirstSeen(city) ==
  CHOOSE j \in 1..Len(filtered_df.rows) :
    /\ filtered_df.rows[j].primary_city = city
    /\ \A i \in 1..(j - 1) : filtered_df.rows[i].primary_city # city

\* series lists at most k cities of the view, each once and with the mean of
\* column c over exactly its records, by mean descending, and no unlisted
\* city has a larger mean than a listed one
TopCityMeans(series, c, k) ==
  LET v == filtered_df.rows
      present == {v[j].primary_city : j \in 1..Len(v)}
      listed == {series[i].key : i \in 1..Len(series)}
      Larger(a, b) == a.sum * b.count > b.sum * a.count
      MeanOfCity(city) == [sum |-> CitySum(v, city, c, 1), count |-> CityCount(v, city)]
  IN /\ Len(series) = (IF k < Cardinality(present) THEN k ELSE Cardinality(present))
     /\ listed \subseteq present /\ Cardinality(listed) = Len(series)
     /\ \A i \in 1..Len(series) :
          /\ series[i].mean.count = CityCount(v, series[i].key)
          /\ series[i].mean.sum = CitySum(v, series[i].key, c, 1)
     /\ \A i, j \in 1..Len(series) : i < j => ~Larger(series[j].mean, series[i].mean)
     /\ \A city \in present \ listed : \A i \in 1..Len(series) :
          ~Larger(MeanOfCity(city), series[i].mean)

\* two listed cities with equal means come in their first-seen order
FirstSeenTies(series) ==
  \A i, j \in 1..Len(series) :
    (i < j /\ series[i].mean.sum * series[j].mean.count
                = series[j].mean.sum * series[i].mean.count)
      => FirstSeen(series[i].key) < FirstSeen(series[j].key)

\* C7 as claimed: at most K cities, each with the mean over its records, by
\* mean descending, equal means in first-seen order of the city
C7_FirstSeenOrder ==
  pc = "map" =>
    /\ TopCityMeans(city_income, "median_income", k_req)
    /\ TopCityMeans(city_home, "median_home_value", k_req)
    /\ FirstSeenTies(city_income)
    /\ FirstSeenTies(city_home)

\* C7 as amended: at most K cities, each with the mean over its records, by
\* mean descending; the order of cities with equal means is not fixed
C7_TopCities ==
  pc = "map" =>
    /\ TopCityMeans(city_income, "median_income", k_req)
    /\ TopCityMeans(city_home, "median_home_value", k_req)

\* C7 witness: two cities with equal mean income are listed, the city seen
\* second in the view first
C7_Witness ==
  /\ pc = "map"
  /\ k_req = 2 /\ Len(city_income) = 2 /\ Len(filtered_df.rows) = 3
  /\ MeanEq(city_income[1].mean, city_income[2].mean)
  /\ FirstSeen(city_income[2].key) < FirstSeen(city_income[1].key)

\* text contains term as a plain substring, compared without case
LiteralContains(text, term) ==
  \E start \in 1..(Len(text) - Len(term) + 1) :
     \A k \in 1..Len(term) : Lower(term[k]) = Lower(text[start + k - 1])

\* C8: a record is in the search result exactly when the term occurs, as a
\* literal substring compared without case, in the text of its zip_code,
\* primary_city or score_category; the order of the view is kept and the
\* empty term gives the view unchanged
C8_LiteralSearch ==
  pc = "done" =>
    /\ IsSubview(display_df.rows, filtered_df.rows,
                 [j \in 1..Len(filtered_df.rows) |->
                    \/ LiteralContains(AsTypeStr(filtered_df.rows[j].zip_code), search_term)
                    \/ LiteralContains(Chars(filtered_df.rows[j].primary_city), search_term)
                    \/ LiteralContains(Chars(filtered_df.rows[j].score_category), search_term)])
    /\ search_term = <<>> => display_df = filtered_df

\* C9 as claimed: the projected view has exactly the requested columns, in
\* the requested order, also for the empty request
C9_ExactProjection ==
  pc = "done" =>
    /\ display_df.cols = selected_cols
    /\ \A i \in 1..Len(display_df.rows) :
         DOMAIN display_df.rows[i] = {selected_cols[k] : k \in 1..Len(selected_cols)}
                                       \cup {"index"}

\* C9 as amended: for a non-empty request the view has exactly the requested
\* columns in the requested order, with the cells of the searched view; for
\* the empty request it keeps every column; the multiselect offers only the
\* columns of the table, so no request names an unknown column and none fails
C9_ProjectionOrAll ==
  /\ pc = "table" => err = ""
  /\ pc = "done" =>
       /\ err = ""
       /\ {selected_cols[k] : k \in 1..Len(selected_cols)} \subseteq ColSet(filtered_df)
       /\ Len(display_df.rows) = Len(filtered_df.rows)
       /\ IF selected_cols = <<>>
          THEN display_df = filtered_df
          ELSE /\ display_df.cols = selected_cols
               /\ \A i \in 1..Len(display_df.rows) :
                    /\ DOMAIN display_df.rows[i] =
                         {selected_cols[k] : k \in 1..Len(selected_cols)} \cup {"index"}
                    /\ \A c \in DOMAIN display_df.rows[i] :
                         display_df.rows[i][c] = filtered_df.rows[i][c]

\* C9 witness: two columns are requested in the reverse of the table's order
C9_Witness ==
  /\ pc = "done"
  /\ selected_cols = <<"score_category", "zip_code">>
  /\ display_df.cols = <<"score_category", "zip_code">>
  /\ Len(display_df.rows) = 2

\* the download text has been produced in this run
Exported == csv # NoCsv
\* the view the data table shows: filter, then search, then column selection
DisplayedView ==
  SelectColumns(Search(ApplyFilters(df, selected_category, selected_city,
                                    score_range), search_term),
                selected_cols).value
\* two tables hold the same columns in the same order and, row by row in the
\* same order, the same cells (the row labels are not data)
SameData(a, b) ==
  /\ a.cols = b.cols
  /\ Len(a.rows) = Len(b.rows)
  /\ \A i \in 1..Len(a.rows) : \A c \in ColSet(a) : a.rows[i][c] = b.rows[i][c]

\* C11: the exported CSV serializes exactly the displayed view (after filter,
\* search and column selection): its header is the view's columns in the
\* order of the projection with no index column, it has one data line per
\* row of the view in the view's order, and reading the text back with
\* read_csv gives a table with the data of the view.
C11_ExportRoundTrip ==
  Exported =>
    /\ display_df = DisplayedView
    /\ csv.header = display_df.cols
    /\ csv.header = (IF selected_cols # <<>> THEN selected_cols ELSE df.cols)
    /\ \A j \in 1..Len(csv.header) : csv.header[j] # "index"
    /\ Len(csv.lines) = Len(display_df.rows)
    /\ \A i \in 1..Len(csv.lines) :
         SplitFields(csv.lines[i]) =
           [j \in 1..Len(display_df.cols) |->
              FormatCell(display_df.cols[j], display_df.rows[i][display_df.cols[j]])]
    /\ SameData(read_csv(csv), display_df)
\* a view of one float column whose first row is not the first record of the
\* dataset and which holds a missing cell has been exported
C11_Witness ==
  /\ pc = "done"
  /\ Exported
  /\ selected_cols = <<"latitude">>
  /\ Len(display_df.rows) = 2
  /\ display_df.rows[1].index # 0
  /\ \E i \in 1..Len(display_df.rows) : IsNaN(display_df.rows[i].latitude)
  /\ csv.lines[1] = <<"\"", "\"">>

\* the sidebar is in its default state: lines 89, 93 and 98-103 start the
\* select boxes at "All" and the slider at (min_score, max_score)
DefaultFilterState ==
  /\ selected_category = "All"
  /\ selected_city = "All"
  /\ score_range = <<min_score(df), max_score(df)>>
\* line 123 has counted the filtered records in this run
Counted == pc \in {"overview", "scores", "economic", "map", "table", "done"}

\* C12: in the default filter state the filtered view is the whole base
\* dataset: no record is excluded, a record whose composite_score is the
\* missing marker included, so "Total Zip Codes" is the number of loaded
\* records.
C12_DefaultShowsAll ==
  (Filtered /\ DefaultFilterState) =>
    /\ filtered_df = df
    /\ Counted => metrics.total = Len(df.rows)
====
